---- MODULE Spec2Model ----
(***************************************************************************)
(* Model of sgpt/app.py: the control flow of main() and its two helpers,   *)
(* handle_second_ai and handle_user_input.  One run of main() is one       *)
(* behaviour; the command-line options are chosen in Init.  Every          *)
(* completion request (a call of some handler's handle method) is appended *)
(* to `calls`, every run_command call to `runs`.                           *)
(***************************************************************************)
EXTENDS Integers, Sequences, FiniteSets, TLC

\* ---------------------------------------------------------------- bounds
MaxCalls == 3
MaxPrompts == 3

\* ------------------------------------------------------- values of inputs
None == "<None>"
Unbound == "<unbound>"
Failed == "<CompletionFailedError>"

StdinText == "stdin"
Prompts == {None, "list files"}
SecondPrompts == {None, "reply"}
ChatIds == {None, "c1", "second_ai"}
ReplIds == {None, "r1"}
RoleNames == {None, "code", "nosuch"}
Inputs == {"hello", "exit()"}
Responses == {"ls -la", "pwd"}
\* model, temperature and top_probability (the last two in tenths); the
\* defaults of the options.
Samplings == { [model |-> "gpt-3.5-turbo", temperature |-> 1, top_probability |-> 10] }

VARIABLES
    prompt, model, temperature, top_probability, shell, describe_shell, code,
    editor, cache, chat, repl, role, second_ai, second_ai_prompt,
    interactive_mode, stdin_passed,
    role_class, chat_handler, second_ai_handler, user_input,
    first_ai_response, second_ai_response, full_completion, option,
    pc, err, calls, runs, nPrompts

options == <<model, temperature, top_probability, shell, describe_shell, code,
             editor, cache, chat, repl, role, second_ai, interactive_mode,
             stdin_passed>>
locals == <<role_class, chat_handler, second_ai_handler, user_input,
            first_ai_response, second_ai_response, full_completion, option>>
vars == <<prompt, second_ai_prompt, options, locals, pc, err, calls, runs, nPrompts>>

\* Python truthiness of an optional string (None and "" are falsy).
Truthy(s) == s # None /\ s # ""

\* ------------------------------------------------------------------ roles
DEFAULT == "default"
SHELL == "shell"
DESCRIBE_SHELL == "describe_shell"
CODE == "code"
Registry == {DEFAULT, SHELL, DESCRIBE_SHELL, CODE}
UnknownRole == "<UnknownRoleError>"
ConflictingMode == "<ConflictingModeError>"

SystemRoleGet(name) == IF name \in Registry THEN name ELSE UnknownRole

B2N(b) == IF b THEN 1 ELSE 0

CheckGet(s, d, c) ==
    IF B2N(s) + B2N(d) + B2N(c) > 1 THEN ConflictingMode
    ELSE IF s THEN SHELL
    ELSE IF d THEN DESCRIBE_SHELL
    ELSE IF c THEN CODE
    ELSE DEFAULT

\* --------------------------------------------------------------- handlers
ChatHandler(chat_id, r) == [kind |-> "ChatHandler", chat_id |-> chat_id, role |-> r]
DefaultHandler(r) == [kind |-> "DefaultHandler", chat_id |-> None, role |-> r]
ReplHandler(chat_id, r) == [kind |-> "ReplHandler", chat_id |-> chat_id, role |-> r]
NoHandler == [kind |-> "none", chat_id |-> None, role |-> None]

\* One handle call: the handler it is made on, the call site, the arguments
\* and the outcome (a completion text or Failed).
Handle(h, who, p, m, t, tp, cid, caching, r) ==
    [who |-> who, kind |-> h.kind, role |-> h.role, prompt |-> p, model |-> m,
     temperature |-> t, top_probability |-> tp, chat_id |-> cid,
     caching |-> caching, response |-> r]

HandleOutcomes == Responses \cup {Failed}

\* ------------------------------------------------------------------- Init
Init ==
    /\ prompt \in Prompts
    /\ \E s \in Samplings :
          /\ model = s.model
          /\ temperature = s.temperature
          /\ top_probability = s.top_probability
    /\ shell \in BOOLEAN
    /\ describe_shell \in BOOLEAN
    /\ code \in BOOLEAN
    /\ editor \in BOOLEAN
    /\ cache \in BOOLEAN
    /\ chat \in ChatIds
    /\ repl \in ReplIds
    /\ role \in RoleNames
    /\ second_ai \in BOOLEAN
    /\ second_ai_prompt \in SecondPrompts
    /\ interactive_mode \in BOOLEAN
    /\ stdin_passed \in BOOLEAN
    /\ role_class = Unbound
    /\ chat_handler = NoHandler
    /\ second_ai_handler = NoHandler
    /\ user_input = Unbound
    /\ first_ai_response = Unbound
    /\ second_ai_response = Unbound
    /\ full_completion = Unbound
    /\ option = Unbound
    /\ pc = "main"
    /\ err = None
    /\ calls = <<>>
    /\ runs = <<>>
    /\ nPrompts = 0

\* An exception leaving main().
Raise(e) == pc' = "raised" /\ err' = e

\* The loop test of line 258.
ShellLoopTest == IF shell /\ ~stdin_passed THEN "Presented" ELSE "done"

\* ---------------------------------------------------------------- actions
\* Lines 158-161: a piped standard input is prepended to the prompt.
ReadStdin ==
    /\ pc = "main"
    /\ prompt' = IF stdin_passed /\ ~Truthy(repl)
                 THEN StdinText \o "\n\n" \o (IF Truthy(prompt) THEN prompt ELSE "")
                 ELSE prompt
    /\ pc' = IF interactive_mode THEN "interactive" ELSE "validate"
    /\ UNCHANGED <<second_ai_prompt, options, locals, err, calls, runs, nPrompts>>

\* EnterInteractive that derives the handler's role from the flags although
\* a role is named.
EnterInteractive_FlagRole ==
    /\ pc = "interactive"
    /\ IF SystemRoleGet(role) = UnknownRole
       THEN Raise(UnknownRole) /\ UNCHANGED chat_handler
       ELSE /\ chat_handler' = ChatHandler(chat, CheckGet(shell, describe_shell, code))
            /\ pc' = "AwaitingInput"
            /\ UNCHANGED err
    /\ UNCHANGED <<prompt, second_ai_prompt, options, role_class, second_ai_handler,
                   user_input, first_ai_response, second_ai_response,
                   full_completion, option, calls, runs, nPrompts>>

\* Lines 163-164: the interactive branch builds its handler.
EnterInteractive ==
    /\ pc = "interactive"
    /\ IF SystemRoleGet(role) = UnknownRole
       THEN Raise(UnknownRole) /\ UNCHANGED chat_handler
       ELSE /\ chat_handler' = ChatHandler(chat, SystemRoleGet(role))
            /\ pc' = "AwaitingInput"
            /\ UNCHANGED err
    /\ UNCHANGED <<prompt, second_ai_prompt, options, role_class, second_ai_handler,
                   user_input, first_ai_response, second_ai_response,
                   full_completion, option, calls, runs, nPrompts>>

\* Line 167: input("You: ").
ReadInput ==
    /\ pc = "AwaitingInput"
    /\ Len(calls) < MaxCalls
    /\ \E i \in Inputs : user_input' = i
    /\ pc' = "Completing"
    /\ UNCHANGED <<prompt, second_ai_prompt, options, role_class, chat_handler,
                   second_ai_handler, first_ai_response, second_ai_response,
                   full_completion, option, err, calls, runs, nPrompts>>

\* HandleUserInput with a data-driven exit: the input "exit()" leaves the loop.
HandleUserInput_ExitOnInput ==
    /\ pc = "Completing"
    /\ \E r \in HandleOutcomes :
          /\ calls' = Append(calls, Handle(chat_handler, "interactive", user_input,
                                model, temperature, top_probability, chat, cache, r))
          /\ IF r = Failed THEN Raise(Failed)
             ELSE /\ pc' = IF user_input = "exit()" THEN "done" ELSE "Presenting"
                  /\ UNCHANGED err
    /\ UNCHANGED <<prompt, second_ai_prompt, options, locals, runs, nPrompts>>

\* Lines 168-176 and 33-40: handle_user_input calls handle.
HandleUserInput ==
    /\ pc = "Completing"
    /\ \E r \in HandleOutcomes :
          /\ calls' = Append(calls, Handle(chat_handler, "interactive", user_input,
                                model, temperature, top_probability, chat, cache, r))
          /\ IF r = Failed THEN Raise(Failed)
             ELSE pc' = "Presenting" /\ UNCHANGED err
    /\ UNCHANGED <<prompt, second_ai_prompt, options, locals, runs, nPrompts>>

\* Lines 41-42: the exchange is printed and the loop of line 166 repeats.
PrintExchange ==
    /\ pc = "Presenting"
    /\ pc' = "AwaitingInput"
    /\ UNCHANGED <<prompt, second_ai_prompt, options, locals, err, calls, runs, nPrompts>>

\* Validate with the mode-flag check made before the missing-prompt check.
Validate_FlagsFirst ==
    /\ pc = "validate"
    /\ IF B2N(shell) + B2N(describe_shell) + B2N(code) > 1
       THEN Raise("BadArgumentUsage:modes") /\ UNCHANGED role_class
       ELSE IF ~Truthy(prompt) /\ ~editor /\ ~Truthy(repl)
       THEN Raise("MissingParameter:PROMPT") /\ UNCHANGED role_class
       ELSE IF Truthy(chat) /\ Truthy(repl)
       THEN Raise("BadArgumentUsage:chat_repl") /\ UNCHANGED role_class
       ELSE IF editor /\ stdin_passed
       THEN Raise("BadArgumentUsage:editor_stdin") /\ UNCHANGED role_class
       ELSE LET rc == IF ~Truthy(role) THEN CheckGet(shell, describe_shell, code)
                      ELSE SystemRoleGet(role)
            IN IF rc = UnknownRole
               THEN Raise(UnknownRole) /\ UNCHANGED role_class
               ELSE /\ role_class' = rc
                    /\ pc' = IF Truthy(repl) THEN "Repl"
                             ELSE IF Truthy(chat)
                             THEN (IF second_ai /\ second_ai_prompt # None
                                   THEN "OneShot" ELSE "DualSetup")
                             ELSE "Default"
                    /\ UNCHANGED err
    /\ UNCHANGED <<prompt, second_ai_prompt, options, chat_handler, second_ai_handler,
                   user_input, first_ai_response, second_ai_response,
                   full_completion, option, calls, runs, nPrompts>>

\* Lines 178-196: option validation, then role resolution.
Validate ==
    /\ pc = "validate"
    /\ IF ~Truthy(prompt) /\ ~editor /\ ~Truthy(repl)
       THEN Raise("MissingParameter:PROMPT") /\ UNCHANGED role_class
       ELSE IF B2N(shell) + B2N(describe_shell) + B2N(code) > 1
       THEN Raise("BadArgumentUsage:modes") /\ UNCHANGED role_class
       ELSE IF Truthy(chat) /\ Truthy(repl)
       THEN Raise("BadArgumentUsage:chat_repl") /\ UNCHANGED role_class
       ELSE IF editor /\ stdin_passed
       THEN Raise("BadArgumentUsage:editor_stdin") /\ UNCHANGED role_class
       ELSE LET rc == IF ~Truthy(role) THEN CheckGet(shell, describe_shell, code)
                      ELSE SystemRoleGet(role)
            IN IF rc = UnknownRole
               THEN Raise(UnknownRole) /\ UNCHANGED role_class
               ELSE /\ role_class' = rc
                    /\ pc' = IF Truthy(repl) THEN "Repl"
                             ELSE IF Truthy(chat)
                             THEN (IF second_ai /\ second_ai_prompt # None
                                   THEN "OneShot" ELSE "DualSetup")
                             ELSE "Default"
                    /\ UNCHANGED err
    /\ UNCHANGED <<prompt, second_ai_prompt, options, chat_handler, second_ai_handler,
                   user_input, first_ai_response, second_ai_response,
                   full_completion, option, calls, runs, nPrompts>>

\* Lines 198-207: main hands control to ReplHandler(repl, role_class).handle.
ReplHandle ==
    /\ pc = "Repl"
    /\ pc' = "ReplAwaiting"
    /\ UNCHANGED <<prompt, second_ai_prompt, options, locals, err, calls, runs, nPrompts>>

\* One iteration of the handler's loop: read a prompt, complete it under the
\* fixed chat id and role.  The loop has no exit of its own.
ReplTurn ==
    /\ pc = "ReplAwaiting"
    /\ Len(calls) < MaxCalls
    /\ \E i \in Inputs, r \in HandleOutcomes :
          /\ calls' = Append(calls, Handle(ReplHandler(repl, role_class), "repl", i,
                                model, temperature, top_probability, repl, cache, r))
          /\ IF r = Failed THEN Raise(Failed)
             ELSE pc' = "ReplAwaiting" /\ UNCHANGED err
    /\ UNCHANGED <<prompt, second_ai_prompt, options, locals, runs, nPrompts>>

\* Lines 14-22: handle_second_ai; the result of handle is discarded.
handle_second_ai(h, p, m, t, tp, cid, caching, r) ==
    calls' = Append(calls, Handle(h, "handle_second_ai", p, m, t, tp, cid, caching, r))

\* Lines 210-220: chat id with --second-ai and a second_ai_prompt.
OneShot ==
    /\ pc = "OneShot"
    /\ chat_handler' = ChatHandler(chat, role_class)
    /\ \E r \in HandleOutcomes :
          /\ handle_second_ai(chat_handler', second_ai_prompt, model, temperature,
                              top_probability, chat, cache, r)
          /\ IF r = Failed THEN Raise(Failed)
             ELSE pc' = ShellLoopTest /\ UNCHANGED err
    /\ UNCHANGED <<prompt, second_ai_prompt, options, role_class, second_ai_handler,
                   user_input, first_ai_response, second_ai_response,
                   full_completion, option, runs, nPrompts>>

\* DualSetup after which the second AI instance takes the first turn.
DualSetup_SecondaryFirst ==
    /\ pc = "DualSetup"
    /\ chat_handler' = ChatHandler(chat, role_class)
    /\ second_ai_handler' = ChatHandler("second_ai", role_class)
    /\ pc' = "DualSecond"
    /\ UNCHANGED <<prompt, second_ai_prompt, options, role_class, user_input,
                   first_ai_response, second_ai_response, full_completion, option,
                   err, calls, runs, nPrompts>>

\* Lines 221-223: every other request with a chat id builds two handlers.
DualSetup ==
    /\ pc = "DualSetup"
    /\ chat_handler' = ChatHandler(chat, role_class)
    /\ second_ai_handler' = ChatHandler("second_ai", role_class)
    /\ pc' = "DualFirst"
    /\ UNCHANGED <<prompt, second_ai_prompt, options, role_class, user_input,
                   first_ai_response, second_ai_response, full_completion, option,
                   err, calls, runs, nPrompts>>

\* Lines 224-234: the first AI instance's turn.
DualFirst ==
    /\ pc = "DualFirst"
    /\ Len(calls) < MaxCalls
    /\ \E r \in HandleOutcomes :
          /\ calls' = Append(calls, Handle(chat_handler, "primary", prompt, model,
                                temperature, top_probability, chat, cache, r))
          /\ IF r = Failed
             THEN Raise(Failed) /\ UNCHANGED first_ai_response
             ELSE first_ai_response' = r /\ pc' = "DualSecond" /\ UNCHANGED err
    /\ UNCHANGED <<prompt, second_ai_prompt, options, role_class, chat_handler,
                   second_ai_handler, user_input, second_ai_response,
                   full_completion, option, runs, nPrompts>>

\* Lines 236-248: the second AI instance's turn, then both prompts are
\* reassigned for the next iteration.
DualSecond ==
    /\ pc = "DualSecond"
    /\ Len(calls) < MaxCalls
    /\ \E r \in HandleOutcomes :
          /\ calls' = Append(calls, Handle(second_ai_handler, "secondary",
                                second_ai_prompt, model, temperature,
                                top_probability, "second_ai", cache, r))
          /\ IF r = Failed
             THEN /\ Raise(Failed)
                  /\ UNCHANGED <<second_ai_response, prompt, second_ai_prompt>>
             ELSE /\ second_ai_response' = r
                  /\ prompt' = first_ai_response
                  /\ second_ai_prompt' = r
                  /\ pc' = "DualFirst"
                  /\ UNCHANGED err
    /\ UNCHANGED <<options, role_class, chat_handler, second_ai_handler, user_input,
                   first_ai_response, full_completion, option, runs, nPrompts>>

\* Lines 249-256: without a chat id, one completion by DefaultHandler.
Default ==
    /\ pc = "Default"
    /\ \E r \in HandleOutcomes :
          /\ calls' = Append(calls, Handle(DefaultHandler(role_class), "default", prompt,
                                model, temperature, top_probability, None, cache, r))
          /\ IF r = Failed
             THEN Raise(Failed) /\ UNCHANGED full_completion
             ELSE full_completion' = r /\ pc' = ShellLoopTest /\ UNCHANGED err
    /\ UNCHANGED <<prompt, second_ai_prompt, options, role_class, chat_handler,
                   second_ai_handler, user_input, first_ai_response,
                   second_ai_response, option, runs, nPrompts>>

\* Lines 258-265: typer.prompt reads one of the four choices.
Choices == {"e", "d", "a", "y"}

PromptChoice ==
    /\ pc = "Presented"
    /\ nPrompts < MaxPrompts
    /\ \E o \in Choices : option' = o
    /\ nPrompts' = nPrompts + 1
    /\ pc' = "Chosen"
    /\ UNCHANGED <<prompt, second_ai_prompt, options, role_class, chat_handler,
                   second_ai_handler, user_input, first_ai_response,
                   second_ai_response, full_completion, err, calls, runs>>

\* Lines 266-267: run_command(full_completion); control then reaches the end
\* of the loop body and the test of line 258 is made again.
Execute ==
    /\ pc = "Chosen"
    /\ option \in {"e", "y"}
    /\ IF full_completion = Unbound
       THEN Raise("UnboundLocalError") /\ UNCHANGED runs
       ELSE /\ runs' = Append(runs, full_completion)
            /\ pc' = ShellLoopTest
            /\ UNCHANGED err
    /\ UNCHANGED <<prompt, second_ai_prompt, options, locals, calls, nPrompts>>

\* Describe that swallows a failed explanation and goes on with the loop.
Describe_SwallowFailure ==
    /\ pc = "Chosen"
    /\ option = "d"
    /\ Len(calls) < MaxCalls
    /\ IF full_completion = Unbound
       THEN Raise("UnboundLocalError") /\ UNCHANGED calls
       ELSE \E r \in HandleOutcomes :
              /\ calls' = Append(calls, Handle(DefaultHandler(DESCRIBE_SHELL), "describe",
                                    full_completion, model, temperature,
                                    top_probability, None, cache, r))
              /\ pc' = ShellLoopTest /\ UNCHANGED err
    /\ UNCHANGED <<prompt, second_ai_prompt, options, locals, runs, nPrompts>>

\* Describe that leaves the caching argument to its default (enabled).
Describe_DefaultCaching ==
    /\ pc = "Chosen"
    /\ option = "d"
    /\ Len(calls) < MaxCalls
    /\ IF full_completion = Unbound
       THEN Raise("UnboundLocalError") /\ UNCHANGED calls
       ELSE \E r \in HandleOutcomes :
              /\ calls' = Append(calls, Handle(DefaultHandler(DESCRIBE_SHELL), "describe",
                                    full_completion, model, temperature,
                                    top_probability, None, TRUE, r))
              /\ IF r = Failed THEN Raise(Failed)
                 ELSE pc' = ShellLoopTest /\ UNCHANGED err
    /\ UNCHANGED <<prompt, second_ai_prompt, options, locals, runs, nPrompts>>

\* Describe that stores the explanation in full_completion.
Describe_OverwritesCommand ==
    /\ pc = "Chosen"
    /\ option = "d"
    /\ Len(calls) < MaxCalls
    /\ IF full_completion = Unbound
       THEN Raise("UnboundLocalError") /\ UNCHANGED <<calls, full_completion>>
       ELSE \E r \in HandleOutcomes :
              /\ calls' = Append(calls, Handle(DefaultHandler(DESCRIBE_SHELL), "describe",
                                    full_completion, model, temperature,
                                    top_probability, None, cache, r))
              /\ IF r = Failed THEN Raise(Failed) /\ UNCHANGED full_completion
                 ELSE /\ full_completion' = r
                      /\ pc' = ShellLoopTest
                      /\ UNCHANGED err
    /\ UNCHANGED <<prompt, second_ai_prompt, options, role_class, chat_handler,
                   second_ai_handler, user_input, first_ai_response,
                   second_ai_response, option, runs, nPrompts>>

\* Lines 268-276: the command is explained by the describe-shell role, then
\* `continue`.
Describe ==
    /\ pc = "Chosen"
    /\ option = "d"
    /\ Len(calls) < MaxCalls
    /\ IF full_completion = Unbound
       THEN Raise("UnboundLocalError") /\ UNCHANGED calls
       ELSE \E r \in HandleOutcomes :
              /\ calls' = Append(calls, Handle(DefaultHandler(DESCRIBE_SHELL), "describe",
                                    full_completion, model, temperature,
                                    top_probability, None, cache, r))
              /\ IF r = Failed THEN Raise(Failed)
                 ELSE pc' = ShellLoopTest /\ UNCHANGED err
    /\ UNCHANGED <<prompt, second_ai_prompt, options, locals, runs, nPrompts>>

\* Lines 266-276 with option "a": neither branch is taken and the loop body
\* ends.
Abort ==
    /\ pc = "Chosen"
    /\ option = "a"
    /\ pc' = ShellLoopTest
    /\ UNCHANGED <<prompt, second_ai_prompt, options, locals, err, calls, runs, nPrompts>>

\* Ctrl+C (or end of input) while main waits for the user or the service.
Waiting == {"AwaitingInput", "Completing", "ReplAwaiting", "DualFirst", "DualSecond",
            "Presented"}

Interrupt ==
    /\ pc \in Waiting
    /\ Raise("KeyboardInterrupt")
    /\ UNCHANGED <<prompt, second_ai_prompt, options, locals, calls, runs, nPrompts>>

Next ==
    \/ ReadStdin
    \/ EnterInteractive
    \/ ReadInput
    \/ HandleUserInput
    \/ PrintExchange
    \/ Validate
    \/ ReplHandle
    \/ ReplTurn
    \/ OneShot
    \/ DualSetup
    \/ DualFirst
    \/ DualSecond
    \/ Default
    \/ PromptChoice
    \/ Execute
    \/ Describe
    \/ Abort
    \/ Interrupt

Spec == Init /\ [][Next]_vars

\* ------------------------------------------------------------ properties
Last(q) == q[Len(q)]

ConflictingFlags == B2N(shell) + B2N(describe_shell) + B2N(code) > 1

\* The completion requests other than the Describe requests of the shell loop.
PromptCalls == SelectSeq(calls, LAMBDA c : c.who # "describe")

\* The interaction mode a call site belongs to.
ModeOf(who) ==
    IF who = "default" THEN "single-shot"
    ELSE IF who \in {"repl", "interactive"} THEN "repl"
    ELSE IF who \in {"primary", "secondary", "handle_second_ai"} THEN "dual-agent"
    ELSE "shell-loop"

\* C1: when Execute ("e" or "y") is chosen for a generated command, the
\* command is run once by run_command, no completion request is made, and
\* the loop terminates.
C1_ExecuteTerminates ==
    [][(pc = "Chosen" /\ option \in {"e", "y"} /\ full_completion # Unbound)
         => (/\ runs' = Append(runs, full_completion)
             /\ calls' = calls
             /\ pc' = "done")]_vars

\* C2: when Abort ("a") is chosen the loop terminates with no side effect:
\* nothing is run, nothing is requested, the choice is not prompted again.
C2_AbortTerminates ==
    [][(pc = "Chosen" /\ option = "a")
         => (/\ runs' = runs
             /\ calls' = calls
             /\ pc' = "done")]_vars

\* C3: when Describe ("d") is chosen, exactly one completion request is made,
\* with the describe-shell role and the generated command as its prompt, the
\* command is not run, and the loop returns to Presented.  (A step in which
\* that request itself fails is not counted against the claim here.)
C3_DescribeRequestsAndLoops ==
    [][(pc = "Chosen" /\ option = "d")
         => (/\ Len(calls') = Len(calls) + 1
             /\ SubSeq(calls', 1, Len(calls)) = calls
             /\ Last(calls').role = DESCRIBE_SHELL
             /\ Last(calls').prompt = full_completion
             /\ full_completion # Unbound
             /\ runs' = runs
             /\ (pc' = "Presented" \/ err' = Failed))]_vars

\* C4: a run with a prompt, a chat id, --second-ai and a second_ai_prompt
\* that ends has made exactly two completion requests: the first with the initial
\* prompt under the chat id, the second with second_ai_prompt under a
\* different chat id.
C4_OneShotTwoRequests ==
    (pc = "done" /\ Truthy(prompt) /\ Truthy(chat) /\ second_ai
       /\ second_ai_prompt # None)
        => (/\ Len(calls) = 2
            /\ calls[1].prompt = prompt
            /\ calls[1].chat_id = chat
            /\ calls[2].prompt = second_ai_prompt
            /\ calls[2].chat_id # chat)

\* C5: in the dual-agent loop, from the second iteration on, each request's
\* prompt is the other identity's most recent output, i.e. the response of
\* the request made just before it.
C5_CrossFeed ==
    \A i \in 3..Len(calls) :
        calls[i].who \in {"primary", "secondary"}
            => calls[i].prompt = calls[i-1].response

\* C6: the chat id of every request of the primary identity differs from the
\* chat id of every request of the secondary identity.
C6_DistinctChatIds ==
    \A i, j \in 1..Len(calls) :
        (calls[i].who = "primary" /\ calls[j].who = "secondary")
            => calls[i].chat_id # calls[j].chat_id

\* C7: with more than one of shell, describe_shell, code set, no completion
\* request and no command execution ever occurs, and the run does not end
\* normally.
C7_ConflictBeforeAnyRequest ==
    ConflictingFlags => (calls = <<>> /\ runs = <<>> /\ pc # "done")

\* C8: the execute/describe/abort choice is presented, and a command is run,
\* only if the resolved role is the shell role and standard input is a
\* terminal.
C8_LoopOnlyForShellRole ==
    (pc \in {"Presented", "Chosen"} \/ nPrompts > 0 \/ runs # <<>>)
        => (role_class = SHELL /\ ~stdin_passed)

\* C9: a run without REPL, interactive mode and second agent whose first
\* request carries a prompt makes no second request for a prompt, and with a
\* chat id the request is made under that chat id.
C9_SingleShotOneCall ==
    (/\ calls # <<>>
     /\ Truthy(calls[1].prompt)
     /\ ~Truthy(repl) /\ ~interactive_mode /\ ~second_ai)
        => (/\ Len(PromptCalls) = 1
            /\ (Truthy(chat) => calls[1].chat_id = chat))

\* C10: the requests of one run belong to one interaction mode, and a run
\* given both a chat id and a REPL id makes no completion request.
C10_ModesExclusive ==
    /\ Cardinality({ModeOf(PromptCalls[i].who) : i \in 1..Len(PromptCalls)}) <= 1
    /\ (Truthy(chat) /\ Truthy(repl)) => calls = <<>>

\* One request of the interactive loop was appended to calls: the input just
\* read as prompt, under the run's chat id and the role named by --role.
InteractiveCallAppended ==
    /\ Len(calls') = Len(calls) + 1
    /\ SubSeq(calls', 1, Len(calls)) = calls
    /\ Last(calls').prompt = user_input
    /\ Last(calls').chat_id = chat
    /\ Last(calls').role = SystemRoleGet(role)

Cancelled == pc' = "raised" /\ err' = "KeyboardInterrupt" /\ calls' = calls

\* C11 (as stated): the interactive loop cycles AwaitingInput -> Completing
\* -> Presenting -> AwaitingInput, one input and one handle call (fixed chat
\* id and role) per iteration, and the only step that leaves the cycle is an
\* external cancellation.
C11_OnlyCancellationEnds ==
    [][/\ (pc = "AwaitingInput")
            => ((pc' = "Completing" /\ calls' = calls) \/ Cancelled)
       /\ (pc = "Completing")
            => ((InteractiveCallAppended /\ pc' = "Presenting") \/ Cancelled)
       /\ (pc = "Presenting")
            => (pc' = "AwaitingInput" /\ calls' = calls)]_vars

\* C11 (amended): the same cycle; the steps that leave it are an external
\* cancellation and a failed handle call, whose failure leaves main.  No
\* input value and no completion text leaves it.
C11_InteractiveCycle ==
    [][/\ (pc = "AwaitingInput")
            => ((pc' = "Completing" /\ calls' = calls) \/ Cancelled)
       /\ (pc = "Completing")
            => \/ /\ InteractiveCallAppended
                  /\ Last(calls').response # Failed
                  /\ pc' = "Presenting"
               \/ /\ InteractiveCallAppended
                  /\ Last(calls').response = Failed
                  /\ pc' = "raised" /\ err' = Failed
               \/ Cancelled
       /\ (pc = "Presenting")
            => (pc' = "AwaitingInput" /\ calls' = calls)]_vars

\* Two iterations were completed, the first of them on the input "exit()".
C11_Witness ==
    /\ pc = "AwaitingInput"
    /\ Len(calls) = 2
    /\ calls[1].prompt = "exit()"
    /\ calls[1].response # calls[2].response

SomeFailed(cs) == \E i \in 1..Len(cs) : cs[i].response = Failed

\* C12: a failed handle call is the last call of the run: the step in which
\* it fails raises CompletionFailedError out of main, and no handle call and
\* no command execution follows it.
C12_FailureSurfaces ==
    [][/\ SomeFailed(calls')
            => /\ pc' = "raised" /\ err' = Failed
               /\ Last(calls').response = Failed
               /\ ~SomeFailed(SubSeq(calls', 1, Len(calls') - 1))
       /\ SomeFailed(calls) => (calls' = calls /\ runs' = runs)]_vars

\* The explanation requested by Describe failed, after the command had been
\* run once.
C12_Witness ==
    /\ pc = "raised" /\ err = Failed
    /\ Last(calls).who = "describe"
    /\ Len(runs) = 1

\* Role resolution: the named role if a name is given, else the role of the
\* mode flags.
ResolvedRole ==
    IF Truthy(role) THEN SystemRoleGet(role)
    ELSE CheckGet(shell, describe_shell, code)

\* C13: every completion request made for a prompt (every request but the
\* Describe requests of the shell loop) is made with the resolved role.
C13_ResolvedRoleUsed ==
    \A i \in 1..Len(calls) :
        calls[i].who # "describe" => calls[i].role = ResolvedRole

\* A request of the interactive loop made with the named role while the
\* flags alone would give the shell role.
C13_Witness ==
    /\ calls # <<>>
    /\ Last(calls).who = "interactive"
    /\ role = CODE /\ shell /\ ~describe_shell /\ ~code
    /\ Last(calls).role = CODE

\* C14: every handle call of a run is made with the run's caching choice and
\* with the run's model, temperature and top-probability.
C14_SamplingAndCachingFixed ==
    \A i \in 1..Len(calls) :
        /\ calls[i].caching = cache
        /\ calls[i].model = model
        /\ calls[i].temperature = temperature
        /\ calls[i].top_probability = top_probability

\* With caching disabled, a completion and then a Describe request were made.
C14_Witness ==
    /\ ~cache
    /\ Len(calls) = 2
    /\ calls[1].who = "default" /\ calls[2].who = "describe"
    /\ ~calls[1].caching /\ ~calls[2].caching

\* C15: in a run of the dual-agent loop the calls at odd positions are the
\* primary's (chat id of the request), the calls at even positions are the
\* secondary's (chat id "second_ai"), and each call of the secondary follows
\* a call of the primary that returned.
C15_StrictAlternation ==
    second_ai_handler # NoHandler
        => \A i \in 1..Len(calls) :
              IF i % 2 = 1
              THEN /\ calls[i].who = "primary"
                   /\ calls[i].chat_id = chat
              ELSE /\ calls[i].who = "secondary"
                   /\ calls[i].chat_id = "second_ai"
                   /\ calls[i-1].who = "primary"
                   /\ calls[i-1].response # Failed

\* The primary has made the first call of the second iteration.
C15_Witness ==
    /\ pc = "DualSecond"
    /\ Len(calls) = 3
    /\ calls[1].who = "primary" /\ calls[2].who = "secondary"
    /\ calls[3].who = "primary"

\* The request has no prompt (none as argument, none piped in), no --editor
\* and no --repl.  prompt is only ever changed from None by piped input or,
\* in the dual-agent loop, to a completion text.
NothingToComplete ==
    ~Truthy(prompt) /\ ~stdin_passed /\ ~editor /\ ~Truthy(repl)

\* C16 (as stated): such a request makes no completion request and the only
\* error it ends with is the missing-PROMPT error.
C16_MissingPromptRejected ==
    NothingToComplete
        => (calls = <<>> /\ (pc = "raised" => err = "MissingParameter:PROMPT"))

\* C16 (amended): such a request that does not select --interactive gets no
\* further than the validation, where it is rejected with the missing-PROMPT
\* error, and makes no completion request.
C16_MissingPromptRejectedUnlessInteractive ==
    (NothingToComplete /\ ~interactive_mode)
        => /\ calls = <<>>
           /\ pc \in {"main", "validate", "raised"}
           /\ (pc = "raised" => err = "MissingParameter:PROMPT")

\* Rejected for the missing prompt although the mode flags conflict as well.
C16_Witness ==
    /\ NothingToComplete /\ ~interactive_mode
    /\ pc = "raised" /\ err = "MissingParameter:PROMPT"
    /\ shell /\ code

\* C17: when the shell loop is about to act on Execute or Describe, a
\* completion text has been assigned to full_completion.
C17_CommandDefined ==
    (pc = "Chosen" /\ option \in {"e", "y", "d"}) => full_completion # Unbound

\* C18: every handle call is given a prompt text, never None.
C18_PromptDefined ==
    \A i \in 1..Len(calls) : calls[i].prompt # None

\* C19: every command passed to run_command is the text of the run's first
\* completion, the one made by DefaultHandler for the prompt, whatever the
\* Describe requests made in between returned.
C19_DescribeKeepsCommand ==
    \A i \in 1..Len(runs) :
        /\ calls[1].who = "default"
        /\ calls[1].prompt = prompt
        /\ runs[i] = calls[1].response

\* Describe, whose explanation differs from the command, then Execute.
C19_Witness ==
    /\ nPrompts = 2 /\ option \in {"e", "y"} /\ pc = "Presented"
    /\ Len(runs) = 1 /\ Len(calls) = 2
    /\ calls[2].who = "describe"
    /\ calls[2].response # calls[1].response
    /\ runs[1] = calls[1].response
====
